---- MODULE Spec2Model ----
(***************************************************************************)
(* Model of the countdown extension's content script                       *)
(* (src/validate-extension.js, lines 85-2215): CountdownTimer,             *)
(* TimerDisplay, ElementDisabler, TimerController, URLPatternDetector and  *)
(* EnhancedTimerController, driven by the browser's callbacks (interval    *)
(* ticks, visibility changes, navigation notifications, URL polling) and   *)
(* by the environment (wall clock, location, page loads).                  *)
(*                                                                         *)
(* Every method of the script is an operator from a world record w (all    *)
(* object fields, localStorage, the clock and the location) to the world   *)
(* after the call, so that nested calls and callbacks run inside the one   *)
(* handler that makes them, as in the single-threaded script.              *)
(***************************************************************************)
EXTENDS Integers, Sequences, FiniteSets, TLC

\* --------------------------------------------------------------- bounds
\* The clock takes the values Epoch + k * ClockStep, k in 0..MaxClock, and one
\* far instant beyond the sleep buffer.
MaxClock == 2
\* Clock steps per default duration (granularity of the clock).
StepsPerDuration == 2
\* Navigation notifications (setTimeout(handleUrlChange, 0)) that may be queued.
MaxPending == 1

\* ------------------------------------------------------ program constants
DefaultDuration == 10 * 60 * 1000
SleepBuffer == 60 * 60 * 1000
MaxDiscrepancy == 5000
MaxAge == 24 * 60 * 60 * 1000
MaxFuture == 5 * 60 * 1000
MinDuration == 60 * 1000
MaxDuration == 24 * 60 * 60 * 1000

ClockStep == DefaultDuration \div StepsPerDuration
Epoch == DefaultDuration
FarInstant == Epoch + DefaultDuration + SleepBuffer + ClockStep
Times == {Epoch + k * ClockStep : k \in 0..MaxClock} \cup {FarInstant}

Max(a, b) == IF a >= b THEN a ELSE b
Min(a, b) == IF a <= b THEN a ELSE b
Abs(a) == IF a >= 0 THEN a ELSE 0 - a

\* Sequencing of statements: the value v of the statements so far is handed
\* to the rest F of the method.
Then(v, F(_)) == F(v)

\* ------------------------------------------------------------------ URLs
\* A URL is its path segments and its query string; the origin is fixed.
Url(segs, query) == [segs |-> segs, query |-> query]
Home == Url(<<"home">>, "")
Task1 == Url(<<"task", "1">>, "")
Task1Query == Url(<<"task", "1">>, "x=2")
Task2 == Url(<<"task", "2">>, "")
Urls == {Home, Task1, Task1Query, Task2}

IsDigits(s) == s \in {"1", "2"}

\* /\/task\/\d+(?:\/|$|\?)/i tested on pathname + search: a "task" segment
\* followed by an all-digit segment (which ends at "/", "?" or the end).
taskPatterns(u) ==
  \E i \in 1..(Len(u.segs) - 1) : u.segs[i] = "task" /\ IsDigits(u.segs[i + 1])

\* /\/task\/1(?:\/|$|\?)/i tested on pathname + search.
countdownPatterns(u) ==
  \E i \in 1..(Len(u.segs) - 1) : u.segs[i] = "task" /\ u.segs[i + 1] = "1"

\* ------------------------------------------------------- ghost recording
\* The callbacks and effects of the handler that is running, in order.
Log(w, e) == [w EXCEPT !.trace = Append(@, e)]

Count(s, e) == Cardinality({i \in 1..Len(s) : s[i] = e})

\* ------------------------------------------------------------ TimerDisplay
\* formatTime: MM:SS of the remaining milliseconds, rounded up to a second.
formatTime(ms) ==
  LET totalSeconds == Max(0, (ms + 999) \div 1000)
  IN  <<totalSeconds \div 60, totalSeconds % 60>>

createOverlay(w) ==
  IF w.displayCreated THEN w
  ELSE [w EXCEPT !.displayCreated = TRUE, !.displayMode = "active",
                 !.displayText = <<10, 0>>]

showActiveState(w, ms) ==
  IF ~w.displayCreated THEN w
  ELSE [w EXCEPT !.displayMode = "active", !.displayText = formatTime(ms)]

showExpiredState(w) ==
  IF ~w.displayCreated THEN w
  ELSE [w EXCEPT !.displayMode = "expired"]

displayShowWaitingState(w) ==
  IF ~w.displayCreated THEN w
  ELSE [w EXCEPT !.displayMode = "waiting"]

updateDisplay(w, ms, isExpired) ==
  LET w1 == createOverlay(w)
  IN  IF isExpired THEN showExpiredState(w1) ELSE showActiveState(w1, ms)

displayDestroy(w) ==
  [w EXCEPT !.displayCreated = FALSE, !.displayMode = "none"]

isVisible(w) == w.displayCreated

\* --------------------------------------------------------- ElementDisabler
\* findTextInputElements / findTargetButtons: the page's matching controls
\* that are not disabled.
findTargetElements(w) == w.dom \ w.disabledElements

disableAllTargetElements(w) ==
  IF w.isDisabled THEN w
  ELSE Log([w EXCEPT !.disabledElements = @ \cup findTargetElements(w),
                     !.isDisabled = TRUE], "disableAll")

refreshDisabledElements(w) ==
  IF ~w.isDisabled THEN w ELSE disableAllTargetElements(w)

restoreElements(w) ==
  [w EXCEPT !.disabledElements = {}, !.isDisabled = FALSE]

\* ---------------------------------------------- TimerController (part 1)
stopElementRefresh(w) == [w EXCEPT !.refreshInterval = FALSE]

startElementRefresh(w) == [stopElementRefresh(w) EXCEPT !.refreshInterval = TRUE]

\* A new MutationObserver is connected and stored in this.mutationObserver;
\* one already stored there stays connected, with no reference left to it.
startExpiredStateMonitoring(w) ==
  [w EXCEPT !.mutationObserver = TRUE,
            !.unreferencedObserver = @ \/ w.mutationObserver]

stopExpiredStateMonitoring(w) ==
  stopElementRefresh(
    [w EXCEPT !.mutationObserver = FALSE])

handleTimerExpiration(w) ==
  startExpiredStateMonitoring(
    stopElementRefresh(
      disableAllTargetElements(
        updateDisplay(w, 0, TRUE))))

\* ----------------------------------------------------------- CountdownTimer
saveStateToStorage(w) ==
  IF w.storageFails # "none" THEN w
  ELSE
  [w EXCEPT !.storage = <<[startTime |-> w.state.startTime,
                           duration |-> w.state.duration,
                           isActive |-> w.state.isActive,
                           isExpired |-> w.state.isExpired,
                           remainingTime |-> w.state.remainingTime,
                           savedAt |-> w.now]>>]

clearStoredState(w) ==
  IF w.storageFails = "all" THEN w ELSE [w EXCEPT !.storage = <<>>]

createNewTimerState(w) ==
  saveStateToStorage(
    [w EXCEPT !.state = [startTime |-> w.now,
                         duration |-> DefaultDuration,
                         isActive |-> TRUE,
                         isExpired |-> FALSE,
                         remainingTime |-> DefaultDuration]])

stopSynchronizationMonitoring(w) == [w EXCEPT !.syncInterval = FALSE]

startSynchronizationMonitoring(w) ==
  [stopSynchronizationMonitoring(w) EXCEPT !.syncInterval = TRUE]

stop(w) == stopSynchronizationMonitoring([w EXCEPT !.intervalId = FALSE])

\* expire without the assignment isActive = false.
expireStillActive(w) ==
  Then(stop(saveStateToStorage(
              [w EXCEPT !.state.isExpired = TRUE,
                        !.state.remainingTime = 0])),
       LAMBDA w1 :
         IF w1.onExpire THEN handleTimerExpiration(Log(w1, "onExpire")) ELSE w1)

\* expire marking the record expired only if it was active: isExpired = isActive.
expireOnlyActive(w) ==
  Then(stop(saveStateToStorage(
              [w EXCEPT !.state.isExpired = w.state.isActive,
                        !.state.isActive = FALSE,
                        !.state.remainingTime = 0])),
       LAMBDA w1 :
         IF w1.onExpire THEN handleTimerExpiration(Log(w1, "onExpire")) ELSE w1)

expire(w) ==
  Then(stop(saveStateToStorage(
              [w EXCEPT !.state.isExpired = TRUE,
                        !.state.isActive = FALSE,
                        !.state.remainingTime = 0])),
       LAMBDA w1 :
         IF w1.onExpire THEN handleTimerExpiration(Log(w1, "onExpire")) ELSE w1)

\* calculateRemainingTime without the floor at zero of its normal case.
calculateRemainingTimeNoFloor(w) ==
  IF w.state.isExpired THEN [w EXCEPT !.state.remainingTime = 0]
  ELSE
    LET elapsed == w.now - w.state.startTime
        maxReasonableElapsed == w.state.duration + SleepBuffer
    IN  IF elapsed < 0
        THEN saveStateToStorage(
               [w EXCEPT !.state.startTime = w.now,
                         !.state.remainingTime = w.state.duration])
        ELSE IF elapsed > maxReasonableElapsed /\ elapsed >= w.state.duration
        THEN expire([w EXCEPT !.state.remainingTime = 0])
        ELSE LET w1 == [w EXCEPT !.state.remainingTime = w.state.duration - elapsed]
             IN  IF w1.state.remainingTime = 0 THEN expire(w1) ELSE w1

\* calculateRemainingTime without its case for a clock that was set back.
calculateRemainingTimeNoBackwardCase(w) ==
  IF w.state.isExpired THEN [w EXCEPT !.state.remainingTime = 0]
  ELSE
    LET elapsed == w.now - w.state.startTime
        maxReasonableElapsed == w.state.duration + SleepBuffer
    IN  IF elapsed > maxReasonableElapsed /\ elapsed >= w.state.duration
        THEN expire([w EXCEPT !.state.remainingTime = 0])
        ELSE LET w1 == [w EXCEPT !.state.remainingTime =
                                    Max(0, w.state.duration - elapsed)]
             IN  IF w1.state.remainingTime = 0 THEN expire(w1) ELSE w1

\* calculateRemainingTime counting down from the cached remaining time: the
\* recomputed value is taken only if it is less than the cached one.
calculateRemainingTimeFromCache(w) ==
  IF w.state.isExpired THEN [w EXCEPT !.state.remainingTime = 0]
  ELSE
    LET elapsed == w.now - w.state.startTime
        maxReasonableElapsed == w.state.duration + SleepBuffer
    IN  IF elapsed < 0
        THEN saveStateToStorage(
               [w EXCEPT !.state.startTime = w.now,
                         !.state.remainingTime = w.state.duration])
        ELSE IF elapsed > maxReasonableElapsed /\ elapsed >= w.state.duration
        THEN expire([w EXCEPT !.state.remainingTime = 0])
        ELSE LET w1 == [w EXCEPT !.state.remainingTime =
                                    Min(@, Max(0, w.state.duration - elapsed))]
             IN  IF w1.state.remainingTime = 0 THEN expire(w1) ELSE w1

calculateRemainingTime(w) ==
  IF w.state.isExpired THEN [w EXCEPT !.state.remainingTime = 0]
  ELSE
    LET elapsed == w.now - w.state.startTime
        maxReasonableElapsed == w.state.duration + SleepBuffer
    IN  IF elapsed < 0
        THEN saveStateToStorage(
               [w EXCEPT !.state.startTime = w.now,
                         !.state.remainingTime = w.state.duration])
        ELSE IF elapsed > maxReasonableElapsed /\ elapsed >= w.state.duration
        THEN expire([w EXCEPT !.state.remainingTime = 0])
        ELSE LET w1 == [w EXCEPT !.state.remainingTime =
                                    Max(0, w.state.duration - elapsed)]
             IN  IF w1.state.remainingTime = 0 THEN expire(w1) ELSE w1

\* The onTick callback of TimerController.initialize, when one is set.
callOnTick(w) ==
  IF w.onTick
  THEN updateDisplay(Log(w, "onTick"), w.state.remainingTime, w.state.isExpired)
  ELSE w

\* tick saving the record before the remaining time is recomputed.
tickSavingFirst(w) ==
  Then(callOnTick(calculateRemainingTime(saveStateToStorage(w))),
       LAMBDA w2 : IF w2.state.remainingTime <= 0 THEN expire(w2) ELSE w2)

\* tick with a saveStateToStorage that lets the error of a failed write out.
tickStoppedByFailedSave(w) ==
  IF w.storageFails # "none" THEN calculateRemainingTime(w)
  ELSE Then(callOnTick(saveStateToStorage(calculateRemainingTime(w))),
            LAMBDA w2 : IF w2.state.remainingTime <= 0 THEN expire(w2) ELSE w2)

tick(w) ==
  Then(callOnTick(saveStateToStorage(calculateRemainingTime(w))),
       LAMBDA w2 : IF w2.state.remainingTime <= 0 THEN expire(w2) ELSE w2)

start(w) ==
  IF w.state.isExpired \/ ~w.state.isActive THEN w
  ELSE tick(startSynchronizationMonitoring([stop(w) EXCEPT !.intervalId = TRUE]))

\* reset without stop(): the intervals keep running.
resetWithoutStop(w) == createNewTimerState(w)

reset(w) == createNewTimerState(stop(w))

cleanupVisibilityChangeDetection(w) == [w EXCEPT !.visibilityChangeHandler = FALSE]

destroy(w) == clearStoredState(cleanupVisibilityChangeDetection(stop(w)))

timerIsActive(w) == w.state.isActive /\ ~w.state.isExpired

timerIsExpired(w) == w.state.isExpired

\* The discrepancy test passing at the limit itself: >= instead of >.
syncNeededAtLimit(w) ==
  LET calculatedRemaining == Max(0, w.state.duration - (w.now - w.state.startTime))
  IN  Abs(w.state.remainingTime - calculatedRemaining) >= MaxDiscrepancy

\* The discrepancy test of performSynchronizationCheck (its return value).
syncNeeded(w) ==
  LET calculatedRemaining == Max(0, w.state.duration - (w.now - w.state.startTime))
  IN  Abs(w.state.remainingTime - calculatedRemaining) > MaxDiscrepancy

performSynchronizationCheck(w) ==
  IF syncNeeded(w) THEN saveStateToStorage(calculateRemainingTime(w)) ELSE w

\* The interval callback of startSynchronizationMonitoring.
syncIntervalCallback(w) ==
  IF w.state.isActive /\ ~w.state.isExpired THEN performSynchronizationCheck(w) ELSE w

\* The visibilitychange listener, for a page that became visible.
visibilityChangeHandler(w) ==
  IF w.state.isActive /\ ~w.state.isExpired
  THEN IF syncNeeded(w)
       THEN Then(callOnTick(performSynchronizationCheck(w)),
                 LAMBDA w2 : IF w2.state.isExpired /\ w2.onExpire
                             THEN handleTimerExpiration(Log(w2, "onExpire"))
                             ELSE w2)
       ELSE w
  ELSE w

\* A stored value is the record JSON.parse makes of it.  A value the script
\* did not write may carry a field raw: whether its text parses at all, and
\* the typeof of each required field of the parsed value ("undefined" for a
\* missing field); without it the value is a well-typed record.
parses(s) == IF "raw" \in DOMAIN s THEN s.raw.parses ELSE TRUE

typeOf(s, f) ==
  IF "raw" \in DOMAIN s THEN s.raw.typeofs[f]
  ELSE IF f \in {"isActive", "isExpired"} THEN "boolean" ELSE "number"

\* isValidSavedState without the type checks of the two flags.
isValidSavedStateNumbersOnly(s) ==
  /\ typeOf(s, "startTime") = "number"
  /\ typeOf(s, "duration") = "number"
  /\ s.startTime > 0
  /\ s.duration > 0

isValidSavedState(s) ==
  /\ typeOf(s, "startTime") = "number"
  /\ typeOf(s, "duration") = "number"
  /\ typeOf(s, "isActive") = "boolean"
  /\ typeOf(s, "isExpired") = "boolean"
  /\ s.startTime > 0
  /\ s.duration > 0

\* The check of savedAt (lines 318-335) only logs.
validateStoredData(s, now) ==
  /\ isValidSavedState(s)
  /\ ~(s.startTime < now - MaxAge)
  /\ ~(s.startTime > now + MaxFuture)
  /\ ~(s.duration < MinDuration \/ s.duration > MaxDuration)

\* The value loadStateFromStorage returns: <<>> for null.
loadedState(w) ==
  IF /\ w.storageFails # "all"
     /\ w.storage # <<>>
     /\ parses(w.storage[1])
     /\ validateStoredData(w.storage[1], w.now)
  THEN w.storage ELSE <<>>

\* loadStateFromStorage's effect: a stored value that cannot be read, does not
\* parse or fails validation is removed (if removeItem does not throw too).
loadStateFromStorage(w) ==
  IF w.storageFails = "all" THEN clearStoredState(w)
  ELSE IF w.storage = <<>> THEN w
  ELSE IF ~parses(w.storage[1]) \/ ~validateStoredData(w.storage[1], w.now)
  THEN clearStoredState(w) ELSE w

\* this.state = { ...savedState }: the stored record's fields, without savedAt.
restoredState(w, savedState) ==
  [w EXCEPT !.state = [startTime |-> savedState.startTime,
                       duration |-> savedState.duration,
                       isActive |-> savedState.isActive,
                       isExpired |-> savedState.isExpired,
                       remainingTime |-> savedState.remainingTime]]

recoverFromSavedState(w, savedState) ==
  Then(calculateRemainingTime(restoredState(w, savedState)),
       LAMBDA w1 :
         LET elapsed == w1.now - w1.state.startTime
         IN  saveStateToStorage(
               IF w1.state.isActive /\ ~w1.state.isExpired
                  /\ elapsed >= w1.state.duration
               THEN expire(w1) ELSE w1))

\* initializeState ignoring the saved state: always a new record.
initializeStateFresh(w) == createNewTimerState(loadStateFromStorage(w))

\* initializeState recovering from any stored value that can be read and parsed,
\* valid or not.
initializeStateTrusting(w) ==
  IF w.storageFails # "all" /\ w.storage # <<>> /\ parses(w.storage[1])
  THEN recoverFromSavedState(w, w.storage[1])
  ELSE createNewTimerState(loadStateFromStorage(w))

initializeState(w) ==
  LET savedState == loadedState(w)
      w1 == loadStateFromStorage(w)
  IN  IF savedState # <<>> /\ validateStoredData(savedState[1], w.now)
      THEN recoverFromSavedState(w1, savedState[1])
      ELSE createNewTimerState(w1)

\* new CountdownTimer(): no intervals, no callbacks, the state initialised
\* and the visibilitychange listener added.
newCountdownTimer(w) ==
  [initializeState([w EXCEPT !.intervalId = FALSE, !.syncInterval = FALSE,
                             !.onTick = FALSE, !.onExpire = FALSE])
     EXCEPT !.visibilityChangeHandler = TRUE]

\* ---------------------------------------------- TimerController (part 2)
\* TimerController.initialize, called as super.initialize().
superInitialize(w) ==
  IF w.isInitialized THEN w
  ELSE
    Then(createOverlay([w EXCEPT !.onTick = TRUE, !.onExpire = TRUE]),
         LAMBDA w1 :
           Then(updateDisplay(w1, w1.state.remainingTime, w1.state.isExpired),
                LAMBDA w2 :
                  [(IF w2.state.isExpired THEN handleTimerExpiration(w2)
                    ELSE IF timerIsActive(w2) THEN startElementRefresh(start(w2))
                    ELSE w2)
                     EXCEPT !.isInitialized = TRUE]))

\* ------------------------------------------------- EnhancedTimerController
clearExistingTimerState(w) ==
  IF w.storageFails = "all" THEN w ELSE [w EXCEPT !.storage = <<>>]

createDisplay(w) == IF ~isVisible(w) THEN createOverlay(w) ELSE w

showWaitingState(w) == displayShowWaitingState(createDisplay(w))

resetTimer(w) ==
  IF w.isInitialized
  THEN Then(reset(w),
            LAMBDA w1 :
              start(updateDisplay(w1, w1.state.remainingTime, w1.state.isExpired)))
  ELSE w

\* The activation step shared by handleCountdownMatch and handleContinueCountdown.
activateOrRestart(w) ==
  IF ~w.isInitialized /\ ~w.isAutoActivated
  THEN [superInitialize(w) EXCEPT !.isAutoActivated = TRUE]
  ELSE IF w.isInitialized /\ ~timerIsActive(w) /\ ~timerIsExpired(w)
  THEN start(w)
  ELSE w

handleCountdownMatch(w, shouldReset) ==
  IF shouldReset
  THEN Then(clearExistingTimerState(w),
            LAMBDA w1 :
              IF w1.isInitialized THEN resetTimer(w1) ELSE activateOrRestart(w1))
  ELSE activateOrRestart(w)

\* handleContinueCountdown resetting the timer it activated.
handleContinueCountdownRestarting(w) ==
  Then(resetTimer(activateOrRestart(w)),
       LAMBDA w1 :
         Then(updateDisplay(w1, w1.state.remainingTime, w1.state.isExpired),
              LAMBDA w2 :
                IF w2.state.isExpired THEN handleTimerExpiration(w2) ELSE w2))

handleContinueCountdown(w) ==
  Then(activateOrRestart(w),
       LAMBDA w1 :
         Then(updateDisplay(w1, w1.state.remainingTime, w1.state.isExpired),
              LAMBDA w2 :
                IF w2.state.isExpired THEN handleTimerExpiration(w2) ELSE w2))

handleTaskMatch(w, shouldStartCountdown, shouldReset) ==
  Then(createDisplay(w),
       LAMBDA w1 :
         LET hasExistingTimer == w1.state.startTime # 0
                                 /\ (w1.state.isActive \/ w1.state.isExpired)
         IN  IF shouldStartCountdown THEN handleCountdownMatch(w1, shouldReset)
             ELSE IF hasExistingTimer THEN handleContinueCountdown(w1)
             ELSE showWaitingState(w1))

\* this.elementDisabler.restoreAllElements is not a method of ElementDisabler:
\* the call throws a TypeError, and the statements after it do not run.
handleUrlNoMatch(w) ==
  Then(clearExistingTimerState(w),
       LAMBDA w1 :
         IF w1.isInitialized
         THEN Log([displayDestroy(destroy(w1)) EXCEPT !.threw = TRUE], "throw")
         ELSE w1)

\* ------------------------------------------------------ URLPatternDetector
\* The path and query of previousUrl; the empty path when there is none.
getPreviousPath(w) ==
  IF w.previousUrl = <<>> THEN Url(<<>>, "") ELSE w.previousUrl[1]

shouldResetTimer(w) ==
  IF w.previousUrl = <<>> THEN FALSE
  ELSE countdownPatterns(w.location) /\ ~taskPatterns(getPreviousPath(w))

\* handleUrlChange calling the start-match callback before the other two.
handleUrlChangeStartFirst(w) ==
  LET urlChanged == w.location # w.currentUrl
      taskMatch == taskPatterns(w.location)
      countdownMatch == countdownPatterns(w.location)
  IN  Then(IF urlChanged
           THEN [w EXCEPT !.previousUrl = <<w.currentUrl>>, !.currentUrl = w.location]
           ELSE w,
           LAMBDA w1 :
             Then(IF countdownMatch
                  THEN handleCountdownMatch(Log(w1, "onCountdownMatch"),
                                            shouldResetTimer(w1))
                  ELSE w1,
                  LAMBDA w2 :
                    IF taskMatch
                    THEN handleTaskMatch(Log(w2, "onTaskMatch"), countdownMatch,
                                         shouldResetTimer(w2))
                    ELSE handleUrlNoMatch(Log(w2, "onNoMatch"))))

handleUrlChange(w) ==
  LET urlChanged == w.location # w.currentUrl
      taskMatch == taskPatterns(w.location)
      countdownMatch == countdownPatterns(w.location)
  IN  Then(IF urlChanged
           THEN [w EXCEPT !.previousUrl = <<w.currentUrl>>, !.currentUrl = w.location]
           ELSE w,
           LAMBDA w1 :
             Then(IF taskMatch
                  THEN handleTaskMatch(Log(w1, "onTaskMatch"), countdownMatch,
                                       shouldResetTimer(w1))
                  ELSE handleUrlNoMatch(Log(w1, "onNoMatch")),
                  LAMBDA w2 :
                    IF w2.threw THEN w2
                    ELSE IF countdownMatch
                    THEN handleCountdownMatch(Log(w2, "onCountdownMatch"),
                                              shouldResetTimer(w2))
                    ELSE w2))

\* The setInterval callback of setupUrlChangeDetection.
urlCheckIntervalCallback(w) ==
  IF w.location # w.currentUrl
  THEN handleUrlChange([w EXCEPT !.currentUrl = w.location])
  ELSE w

startMonitoring(w) ==
  IF w.isMonitoring THEN w
  ELSE [handleUrlChange(w) EXCEPT !.isMonitoring = TRUE]

\* EnhancedTimerController.initialize
enhancedInitialize(w) ==
  Then(startMonitoring(w),
       LAMBDA w1 :
         IF taskPatterns(w1.location)
         THEN Then(createDisplay(w1),
                   LAMBDA w2 :
                     LET hasExistingTimer == loadedState(w2) # <<>>
                     IN  Then(loadStateFromStorage(w2),
                              LAMBDA w3 :
                                IF countdownPatterns(w3.location)
                                THEN [superInitialize(w3)
                                        EXCEPT !.isAutoActivated = TRUE]
                                ELSE IF hasExistingTimer
                                THEN handleContinueCountdown(w3)
                                ELSE showWaitingState(w3)))
         ELSE w1)

\* ------------------------------------------------------------- page load
InitialDom == {1}

\* A fresh document at url u before the script's objects exist; localStorage
\* and the clock are the environment's.
unloaded(u, t, stored) ==
    [now |-> t, location |-> u, storage |-> stored, storageFails |-> "none",
     state |-> [startTime |-> 0, duration |-> 0, isActive |-> FALSE,
                isExpired |-> FALSE, remainingTime |-> 0],
     intervalId |-> FALSE, syncInterval |-> FALSE,
     visibilityChangeHandler |-> FALSE, onTick |-> FALSE, onExpire |-> FALSE,
     displayCreated |-> FALSE, displayMode |-> "none", displayText |-> <<10, 0>>,
     isDisabled |-> FALSE, disabledElements |-> {}, dom |-> InitialDom,
     isInitialized |-> FALSE, isAutoActivated |-> FALSE, refreshInterval |-> FALSE,
     mutationObserver |-> FALSE, unreferencedObserver |-> FALSE,
     currentUrl |-> u, previousUrl |-> <<>>, isMonitoring |-> FALSE,
     trace |-> <<>>, threw |-> FALSE]

\* The script's objects as their constructors leave them.
constructed(u, t, stored) == newCountdownTimer(unloaded(u, t, stored))

\* ContentScriptInitializer.performInitialization on a ready document.
performInitialization(u, t, stored) == enhancedInitialize(constructed(u, t, stored))

\* performInitialization on a ready document whose localStorage accesses fail
\* as fails says.
performInitializationWith(u, t, stored, fails) ==
  enhancedInitialize(
    newCountdownTimer([unloaded(u, t, stored) EXCEPT !.storageFails = fails]))

\* ------------------------------------------------ ContentScriptInitializer
maxInitializationAttempts == 5

\* The initializer as its constructor leaves it, with the document it runs in:
\* loading is document.readyState = 'loading', body is document.body.  retryDelay
\* is the delay of the retry timer (0: none is scheduled); listening is the
\* DOMContentLoaded listener; runs and delays record the calls of
\* performInitialization and the delays of the retries scheduled.
newInitializer(loading, body) ==
  [isInitialized |-> FALSE, initializationAttempts |-> 0,
   started |-> FALSE, listening |-> FALSE, retryDelay |-> 0,
   loading |-> loading, body |-> body, runs |-> 0, delays |-> <<>>]

\* retryInitialization giving up only after the limit was exceeded.
retryInitializationPastLimit(i) ==
  Then([i EXCEPT !.initializationAttempts = @ + 1],
       LAMBDA i1 :
         IF i1.initializationAttempts > maxInitializationAttempts THEN i1
         ELSE Then(Min(1000 * 2 ^ (i1.initializationAttempts - 1), 5000),
                   LAMBDA delay :
                     [i1 EXCEPT !.retryDelay = delay,
                                !.delays = Append(@, delay)]))

retryInitialization(i) ==
  Then([i EXCEPT !.initializationAttempts = @ + 1],
       LAMBDA i1 :
         IF i1.initializationAttempts >= maxInitializationAttempts THEN i1
         ELSE Then(Min(1000 * 2 ^ (i1.initializationAttempts - 1), 5000),
                   LAMBDA delay :
                     [i1 EXCEPT !.retryDelay = delay,
                                !.delays = Append(@, delay)]))

\* The initializer after the page's script was loaded and initialized at the
\* first attempt.
Bootstrapped ==
  [newInitializer(FALSE, TRUE) EXCEPT !.started = TRUE, !.isInitialized = TRUE,
                                     !.runs = 1]

\* ------------------------------------------------------------------ state
VARIABLES
  now,         \* Date.now()
  location,    \* window.location
  pending,     \* queued setTimeout(() => this.handleUrlChange(), 0) callbacks
  storage,     \* localStorage['aws-countdown-timer-state']: <<>> or <<record>>
  dom,         \* the page's matching form controls
  timer,       \* CountdownTimer
  display,     \* TimerDisplay
  disabler,    \* ElementDisabler
  controller,  \* EnhancedTimerController
  detector,    \* URLPatternDetector
  visited,     \* history: a location inside the section has been handled
  initializer, \* ContentScriptInitializer and the document it waits for
  storageFails \* the localStorage accesses that throw: "none", "writes" (quota
               \* exceeded) or "all" (access denied)

vars == <<now, location, pending, storage, dom, timer, display, disabler,
          controller, detector, visited, initializer, storageFails>>

\* The world a handler starts from.
World ==
  [now |-> now, location |-> location, storage |-> storage, dom |-> dom,
   state |-> timer.state, intervalId |-> timer.intervalId,
   syncInterval |-> timer.syncInterval,
   visibilityChangeHandler |-> timer.visibilityChangeHandler,
   onTick |-> timer.onTick, onExpire |-> timer.onExpire,
   displayCreated |-> display.isCreated, displayMode |-> display.mode,
   displayText |-> display.text,
   isDisabled |-> disabler.isDisabled, disabledElements |-> disabler.disabledElements,
   isInitialized |-> controller.isInitialized,
   isAutoActivated |-> controller.isAutoActivated,
   refreshInterval |-> controller.refreshInterval,
   mutationObserver |-> controller.mutationObserver,
   unreferencedObserver |-> controller.unreferencedObserver,
   currentUrl |-> detector.currentUrl, previousUrl |-> detector.previousUrl,
   isMonitoring |-> detector.isMonitoring,
   storageFails |-> storageFails,
   trace |-> <<>>, threw |-> FALSE]

TimerOf(w) ==
  [state |-> w.state, intervalId |-> w.intervalId, syncInterval |-> w.syncInterval,
   visibilityChangeHandler |-> w.visibilityChangeHandler,
   onTick |-> w.onTick, onExpire |-> w.onExpire]

DisplayOf(w) ==
  [isCreated |-> w.displayCreated, mode |-> w.displayMode, text |-> w.displayText]

DisablerOf(w) == [isDisabled |-> w.isDisabled, disabledElements |-> w.disabledElements]

ControllerOf(w) ==
  [isInitialized |-> w.isInitialized, isAutoActivated |-> w.isAutoActivated,
   refreshInterval |-> w.refreshInterval, mutationObserver |-> w.mutationObserver,
   unreferencedObserver |-> w.unreferencedObserver]

DetectorOf(w) ==
  [currentUrl |-> w.currentUrl, previousUrl |-> w.previousUrl,
   isMonitoring |-> w.isMonitoring]

\* The script's objects and localStorage are those of the world w.
Installed(w) ==
  /\ storage' = w.storage
  /\ timer' = TimerOf(w)
  /\ display' = DisplayOf(w)
  /\ disabler' = DisablerOf(w)
  /\ controller' = ControllerOf(w)
  /\ detector' = DetectorOf(w)
  /\ visited' = (visited \/ taskPatterns(w.currentUrl))

\* The script's state becomes that of the world w a handler ends in.
Becomes(w) == Installed(w) /\ UNCHANGED <<initializer, storageFails>>

\* The first page load, at each url, with empty localStorage.
InitialWorlds == {performInitialization(u, Epoch, <<>>) : u \in Urls}

Init ==
  \E w \in InitialWorlds :
    /\ now = Epoch
    /\ location = w.location
    /\ pending = 0
    /\ dom = InitialDom
    /\ storage = w.storage
    /\ timer = TimerOf(w)
    /\ display = DisplayOf(w)
    /\ disabler = DisablerOf(w)
    /\ controller = ControllerOf(w)
    /\ detector = DetectorOf(w)
    /\ visited = taskPatterns(w.currentUrl)
    /\ initializer = Bootstrapped
    /\ storageFails = "none"

\* ------------------------------------------------------------ environment
\* The wall clock moves: time passes, or the clock is set back or forward.
ClockMove ==
  /\ \E t \in Times \ {now} : now' = t
  /\ UNCHANGED <<location, pending, storage, dom, timer, display, disabler,
                 controller, detector, visited, initializer, storageFails>>

\* history.pushState / replaceState, popstate or hashchange: the location
\* becomes u (replaceState may keep it) and a handleUrlChange is queued.
HistoryNavigate ==
  /\ \E u \in Urls : location' = u
  /\ pending' = Min(pending + 1, MaxPending)
  /\ UNCHANGED <<now, storage, dom, timer, display, disabler, controller,
                 detector, visited, initializer, storageFails>>

\* A location change that none of the listeners sees; only polling finds it.
SilentNavigate ==
  /\ \E u \in Urls \ {location} : location' = u
  /\ UNCHANGED <<now, pending, storage, dom, timer, display, disabler,
                 controller, detector, visited, initializer, storageFails>>

\* A full page load at u: a new document and a new script instance;
\* localStorage survives.
PageLoad ==
  \E u \in Urls :
    LET w == performInitialization(u, now, storage)
    IN  /\ location' = u
        /\ pending' = 0
        /\ dom' = InitialDom
        /\ Becomes(w)
        /\ UNCHANGED now

\* --------------------------------------------------------------- handlers
\* A queued navigation notification runs handleUrlChange.
HandleNotification ==
  /\ pending > 0
  /\ pending' = pending - 1
  /\ Becomes(handleUrlChange(World))
  /\ UNCHANGED <<now, location, dom>>

\* The 1-second URL polling interval finds a changed location.
PollUrl ==
  /\ detector.isMonitoring
  /\ location # detector.currentUrl
  /\ Becomes(urlCheckIntervalCallback(World))
  /\ UNCHANGED <<now, location, pending, dom>>

\* The 1-second tick interval fires.
Tick ==
  /\ timer.intervalId
  /\ Becomes(tick(World))
  /\ UNCHANGED <<now, location, pending, dom>>

\* The 30-second synchronization interval fires.
SyncCheck ==
  /\ timer.syncInterval
  /\ Becomes(syncIntervalCallback(World))
  /\ UNCHANGED <<now, location, pending, dom>>

\* The page becomes visible.
VisibilityChange ==
  /\ timer.visibilityChangeHandler
  /\ Becomes(visibilityChangeHandler(World))
  /\ UNCHANGED <<now, location, pending, dom>>

\* The 2-second element refresh interval fires.
ElementRefresh ==
  /\ controller.refreshInterval
  /\ Becomes(IF timerIsExpired(World) THEN refreshDisabledElements(World) ELSE World)
  /\ UNCHANGED <<now, location, pending, dom>>

Next ==
  \/ ClockMove
  \/ HistoryNavigate
  \/ SilentNavigate
  \/ PageLoad
  \/ HandleNotification
  \/ PollUrl
  \/ Tick
  \/ SyncCheck
  \/ VisibilityChange
  \/ ElementRefresh

Spec == Init /\ [][Next]_vars

TypeOK ==
  /\ now \in Nat
  /\ location \in Urls
  /\ pending \in 0..MaxPending
  /\ Len(storage) <= 1
  /\ timer.state.remainingTime \in Int
  /\ initializer.isInitialized \in BOOLEAN
  /\ initializer.initializationAttempts \in 0..(maxInitializationAttempts + 1)
  /\ initializer.retryDelay \in Nat
  /\ storageFails \in {"none", "writes", "all"}

\* ------------------------------------------------- storage written by others
\* localStorage belongs to the page's origin: the page's own scripts, or the
\* user, can leave any record under the script's key. The records considered:
\* every combination of a few values of each field.
StoredRecords ==
  [startTime : Times,
   duration : {MinDuration \div 2, ClockStep, DefaultDuration},
   isActive : BOOLEAN, isExpired : BOOLEAN,
   remainingTime : {0, DefaultDuration + ClockStep},
   savedAt : {Epoch}]

\* A record is written under the script's key from outside the script.
StorageWrite ==
  /\ \E s \in StoredRecords : storage' = <<s>>
  /\ UNCHANGED <<now, location, pending, dom, timer, display, disabler,
                 controller, detector, visited, initializer, storageFails>>

\* The script on pages that are loaded and left to their timers, with
\* localStorage open to other writers.
StorageNext ==
  \/ ClockMove
  \/ StorageWrite
  \/ PageLoad
  \/ Tick
  \/ SyncCheck
  \/ VisibilityChange

StorageSpec == Init /\ [][StorageNext]_vars

\* ------------------------------------------------- staying inside the section
\* A control that the page adds after it was loaded.
LateControl == 2

SectionUrls == {u \in Urls : taskPatterns(u)}

\* The section has just been entered: by a first page load inside it, or from
\* a page loaded at /home by a navigation that its notification handled.
SectionEntryWorlds ==
  {performInitialization(u, Epoch, <<>>) : u \in SectionUrls}
    \cup {handleUrlChange([performInitialization(Home, Epoch, <<>>)
                             EXCEPT !.location = u]) : u \in SectionUrls}

SectionInit ==
  \E w \in SectionEntryWorlds :
    /\ now = Epoch
    /\ location = w.location
    /\ pending = 0
    /\ dom = InitialDom
    /\ storage = w.storage
    /\ timer = TimerOf(w)
    /\ display = DisplayOf(w)
    /\ disabler = DisablerOf(w)
    /\ controller = ControllerOf(w)
    /\ detector = DetectorOf(w)
    /\ visited = TRUE
    /\ initializer = Bootstrapped
    /\ storageFails = "none"

\* Time passes.
ClockAdvance ==
  /\ \E t \in Times : t > now /\ now' = t
  /\ UNCHANGED <<location, pending, storage, dom, timer, display, disabler,
                 controller, detector, visited, initializer, storageFails>>

\* HistoryNavigate to a location inside the section.
SectionNavigate ==
  /\ \E u \in SectionUrls : location' = u
  /\ pending' = Min(pending + 1, MaxPending)
  /\ UNCHANGED <<now, storage, dom, timer, display, disabler, controller,
                 detector, visited, initializer, storageFails>>

\* SilentNavigate to a location inside the section.
SectionSilentNavigate ==
  /\ \E u \in SectionUrls \ {location} : location' = u
  /\ UNCHANGED <<now, pending, storage, dom, timer, display, disabler,
                 controller, detector, visited, initializer, storageFails>>

\* The page adds a form control to the document.
ControlAppears ==
  /\ LateControl \notin dom
  /\ dom' = dom \cup {LateControl}
  /\ UNCHANGED <<now, location, pending, storage, timer, display, disabler,
                 controller, detector, visited, initializer, storageFails>>

\* A connected MutationObserver saw a form control added, and the refresh it
\* scheduled 100 ms later runs.
ObserverRefresh ==
  /\ controller.mutationObserver \/ controller.unreferencedObserver
  /\ LateControl \in dom
  /\ Becomes(refreshDisabledElements(World))
  /\ UNCHANGED <<now, location, pending, dom>>

SectionNext ==
  \/ ClockAdvance
  \/ SectionNavigate
  \/ SectionSilentNavigate
  \/ ControlAppears
  \/ HandleNotification
  \/ PollUrl
  \/ Tick
  \/ SyncCheck
  \/ VisibilityChange
  \/ ElementRefresh
  \/ ObserverRefresh

\* The tick interval has work to do: it is registered and its callback would
\* change the state (setInterval, line 417).
TickDue ==
  /\ timer.intervalId
  /\ \/ TimerOf(tick(World)) # timer
     \/ tick(World).storage # storage
     \/ DisplayOf(tick(World)) # display
     \/ DisablerOf(tick(World)) # disabler
     \/ ControllerOf(tick(World)) # controller

\* The script while the location stays inside the section and the clock only
\* advances.  A registered interval keeps firing: the tick that is due runs
\* eventually (weak fairness of Tick, written with TickDue as its enabling
\* condition), and so do the refresh callbacks.
SectionSpec ==
  /\ SectionInit /\ [][SectionNext]_vars
  /\ ([]<>(~TickDue) \/ []<><<Tick>>_vars)
  /\ WF_vars(ElementRefresh) /\ WF_vars(ObserverRefresh)

\* ------------------------------------------------------------- bootstrap
\* The script was injected into a document that may still be loading or have
\* no body; none of the script's objects exists yet.
BootInit ==
  \E u \in Urls, loading \in BOOLEAN, body \in BOOLEAN :
    /\ now = Epoch
    /\ location = u
    /\ pending = 0
    /\ dom = InitialDom
    /\ storage = <<>>
    /\ timer = TimerOf(unloaded(u, Epoch, <<>>))
    /\ display = DisplayOf(unloaded(u, Epoch, <<>>))
    /\ disabler = DisablerOf(unloaded(u, Epoch, <<>>))
    /\ controller = ControllerOf(unloaded(u, Epoch, <<>>))
    /\ detector = DetectorOf(unloaded(u, Epoch, <<>>))
    /\ visited = FALSE
    /\ initializer = newInitializer(loading, body)
    /\ storageFails = "none"

\* performInitialization called on the initializer i: without a body, or if
\* the construction throws, a retry; otherwise the script's objects are
\* constructed and initialized.
PerformInitialization(i) ==
  \E throws \in BOOLEAN :
    /\ IF ~i.body \/ throws
       THEN /\ initializer' = retryInitialization([i EXCEPT !.runs = @ + 1])
            /\ UNCHANGED <<storage, timer, display, disabler, controller,
                           detector, visited>>
       ELSE /\ initializer' = [i EXCEPT !.runs = @ + 1, !.isInitialized = TRUE]
            /\ Installed(performInitialization(location, now, storage))
    /\ UNCHANGED <<now, location, pending, dom, storageFails>>

\* initialize(), called once when the script is loaded.
Initialize ==
  /\ ~initializer.started
  /\ IF initializer.isInitialized
     THEN UNCHANGED vars
     ELSE IF initializer.loading
     THEN /\ initializer' = [initializer EXCEPT !.started = TRUE, !.listening = TRUE]
          /\ UNCHANGED <<now, location, pending, storage, dom, timer, display,
                         disabler, controller, detector, visited, storageFails>>
     ELSE PerformInitialization([initializer EXCEPT !.started = TRUE])

\* The document has been parsed: DOMContentLoaded runs the listener, if any.
DomContentLoaded ==
  /\ initializer.loading
  /\ IF initializer.listening
     THEN PerformInitialization([initializer EXCEPT !.loading = FALSE,
                                                   !.listening = FALSE])
     ELSE /\ initializer' = [initializer EXCEPT !.loading = FALSE]
          /\ UNCHANGED <<now, location, pending, storage, dom, timer, display,
                         disabler, controller, detector, visited, storageFails>>

\* The document gets its body.
BodyAppears ==
  /\ ~initializer.body
  /\ initializer' = [initializer EXCEPT !.body = TRUE]
  /\ UNCHANGED <<now, location, pending, storage, dom, timer, display,
                 disabler, controller, detector, visited, storageFails>>

\* The retry timer fires.
RetryTimer ==
  /\ initializer.retryDelay > 0
  /\ PerformInitialization([initializer EXCEPT !.retryDelay = 0])

BootNext ==
  \/ Initialize
  \/ DomContentLoaded
  \/ BodyAppears
  \/ RetryTimer
  \/ ClockMove
  \/ SilentNavigate
  \/ PollUrl
  \/ Tick

\* The script from its injection into a document.
BootSpec == BootInit /\ [][BootNext]_vars

\* ------------------------------------------------- loading a stored value
\* The script is loaded into a page whose localStorage holds any value under
\* the script's key, a day after the record's time or not, with localStorage
\* working or not.
LateInstant == Epoch + MaxAge + DefaultDuration
LoadTimes == {Epoch, LateInstant}
StorageModes == {"none", "writes", "all"}

\* The typeofs of the required fields: all right, or one field missing or a string.
RightTypes ==
  [startTime |-> "number", duration |-> "number",
   isActive |-> "boolean", isExpired |-> "boolean"]

FieldTypes ==
  {RightTypes}
    \cup {[RightTypes EXCEPT ![f] = ty] :
           f \in DOMAIN RightTypes, ty \in {"undefined", "string"}}

\* The stored values considered: the fields at and next to each limit of the
\* validation, every typing of the required fields, and a text that is not JSON.
LoadedValues ==
  [startTime : {0, Epoch, Epoch + MaxFuture, Epoch + MaxFuture + 1,
                LateInstant - MaxAge, LateInstant - MaxAge - 1},
   duration : {0, MinDuration - 1, MinDuration, DefaultDuration, MaxDuration,
               MaxDuration + 1},
   isActive : BOOLEAN, isExpired : BOOLEAN,
   remainingTime : {0}, savedAt : {Epoch},
   raw : [parses : {TRUE}, typeofs : FieldTypes]]
    \cup [startTime : {Epoch}, duration : {DefaultDuration},
          isActive : {TRUE}, isExpired : {FALSE},
          remainingTime : {0}, savedAt : {Epoch},
          raw : [parses : {FALSE}, typeofs : {RightTypes}]]

LoadInit ==
  \E u \in {Task1, Task2}, t \in LoadTimes, s \in LoadedValues,
     fails \in StorageModes :
    /\ now = t
    /\ location = u
    /\ pending = 0
    /\ dom = InitialDom
    /\ storage = <<s>>
    /\ timer = TimerOf(unloaded(u, t, <<s>>))
    /\ display = DisplayOf(unloaded(u, t, <<s>>))
    /\ disabler = DisablerOf(unloaded(u, t, <<s>>))
    /\ controller = ControllerOf(unloaded(u, t, <<s>>))
    /\ detector = DetectorOf(unloaded(u, t, <<s>>))
    /\ visited = FALSE
    /\ initializer = [newInitializer(FALSE, TRUE) EXCEPT !.started = TRUE]
    /\ storageFails = fails

\* performInitialization on the ready document.
ScriptLoads ==
  /\ ~initializer.isInitialized
  /\ initializer' = [initializer EXCEPT !.runs = @ + 1, !.isInitialized = TRUE]
  /\ Installed(performInitializationWith(location, now, storage, storageFails))
  /\ UNCHANGED <<now, location, pending, dom, storageFails>>

LoadNext ==
  \/ ScriptLoads
  \/ Tick
  \/ VisibilityChange

LoadSpec == LoadInit /\ [][LoadNext]_vars

\* ------------------------------------------------------- failing storage
\* The first page load, with localStorage working or not.
FaultInit ==
  \E u \in Urls, fails \in StorageModes :
    /\ now = Epoch
    /\ location = u
    /\ pending = 0
    /\ dom = InitialDom
    /\ storage = performInitializationWith(u, Epoch, <<>>, fails).storage
    /\ timer = TimerOf(performInitializationWith(u, Epoch, <<>>, fails))
    /\ display = DisplayOf(performInitializationWith(u, Epoch, <<>>, fails))
    /\ disabler = DisablerOf(performInitializationWith(u, Epoch, <<>>, fails))
    /\ controller = ControllerOf(performInitializationWith(u, Epoch, <<>>, fails))
    /\ detector = DetectorOf(performInitializationWith(u, Epoch, <<>>, fails))
    /\ visited = taskPatterns(u)
    /\ initializer = Bootstrapped
    /\ storageFails = fails

\* localStorage starts or stops throwing (the quota is used up or freed, the
\* access is denied or allowed).
StorageFault ==
  /\ \E fails \in StorageModes \ {storageFails} : storageFails' = fails
  /\ UNCHANGED <<now, location, pending, storage, dom, timer, display,
                 disabler, controller, detector, visited, initializer>>

FaultNext ==
  \/ StorageFault
  \/ ClockAdvance
  \/ HistoryNavigate
  \/ HandleNotification
  \/ Tick
  \/ SyncCheck

\* The script with a localStorage that may fail.
FaultSpec == FaultInit /\ [][FaultNext]_vars

\* ------------------------------------------------------------ clock drift
\* The clock readings around the limit of the drift check: the load, one ms
\* and the limit (and one and two ms more) after it, the expiry, a long sleep,
\* and a clock set back before the load.
DriftTimes ==
  {Epoch - MaxDiscrepancy - 1, Epoch, Epoch + 1, Epoch + MaxDiscrepancy,
   Epoch + MaxDiscrepancy + 1, Epoch + MaxDiscrepancy + 2,
   Epoch + DefaultDuration, FarInstant}

\* The page was loaded inside the section with empty localStorage.
DriftInit ==
  \E u \in SectionUrls :
    /\ now = Epoch
    /\ location = u
    /\ pending = 0
    /\ dom = InitialDom
    /\ storage = performInitialization(u, Epoch, <<>>).storage
    /\ timer = TimerOf(performInitialization(u, Epoch, <<>>))
    /\ display = DisplayOf(performInitialization(u, Epoch, <<>>))
    /\ disabler = DisablerOf(performInitialization(u, Epoch, <<>>))
    /\ controller = ControllerOf(performInitialization(u, Epoch, <<>>))
    /\ detector = DetectorOf(performInitialization(u, Epoch, <<>>))
    /\ visited = TRUE
    /\ initializer = Bootstrapped
    /\ storageFails = "none"

\* The wall clock moves to another of the readings, forward or backward.
DriftClockMove ==
  /\ \E t \in DriftTimes \ {now} : now' = t
  /\ UNCHANGED <<location, pending, storage, dom, timer, display, disabler,
                 controller, detector, visited, initializer, storageFails>>

DriftNext ==
  \/ DriftClockMove
  \/ Tick
  \/ SyncCheck
  \/ VisibilityChange

\* The timer's handlers under a clock that drifts and jumps.
DriftSpec == DriftInit /\ [][DriftNext]_vars

\* ================================================================= claims
\* The worlds in which the handling of the current location can end, by either
\* detection mechanism that can run in this state: a queued notification
\* (patched history call, popstate, hashchange) or the polling interval.
HandledWorlds ==
  (IF pending > 0 THEN {handleUrlChange(World)} ELSE {})
    \cup (IF detector.isMonitoring /\ location # detector.currentUrl
          THEN {urlCheckIntervalCallback(World)} ELSE {})

\* The last location the detector handled is outside the tracked section.
LastHandledOutside == ~taskPatterns(detector.currentUrl)

Running(w) == w.state.isActive /\ ~w.state.isExpired /\ w.intervalId

\* A record created at w's instant, with its full duration, being ticked.
BrandNewRecord(w) ==
  /\ w.state = [startTime |-> w.now, duration |-> DefaultDuration,
                isActive |-> TRUE, isExpired |-> FALSE,
                remainingTime |-> DefaultDuration]
  /\ w.intervalId

\* The handler that took the record from w0 to w1 called the expire callback
\* once if the record went from not expired to expired, and not at all otherwise.
ExpireCallsMatch(w0, w1) ==
  Count(w1.trace, "onExpire") =
    IF ~w0.state.isExpired /\ w1.state.isExpired THEN 1 ELSE 0

\* C1: on a timer with a registered expire callback, every tick, drift check,
\* visibility change and start calls the expire callback exactly once for a
\* transition of the record from not expired to expired (and not otherwise).
C1_ExpireCallbackOncePerTransition ==
  timer.onExpire =>
    /\ timer.intervalId => ExpireCallsMatch(World, tick(World))
    /\ timer.syncInterval => ExpireCallsMatch(World, syncIntervalCallback(World))
    /\ timer.visibilityChangeHandler =>
         ExpireCallsMatch(World, visibilityChangeHandler(World))
    /\ ExpireCallsMatch(World, start(World))

\* C2: when the last handled location is outside the section and the location
\* is now the start point, handling the navigation (by a notification or by
\* polling) leaves a brand-new record: startTime the instant of handling, the
\* full duration remaining, active, not expired, and ticking.
C2_BrandNewRecordOnEntryAtStart ==
  LastHandledOutside /\ countdownPatterns(location)
    => \A w \in HandledWorlds : BrandNewRecord(w)

\* C3: handling a navigation between two locations inside the section keeps the
\* record's startTime and duration, keeps a running timer running and an
\* expired one expired.
C3_NoResetInsideSection ==
  ~LastHandledOutside /\ taskPatterns(location) /\ location # detector.currentUrl
    => \A w \in HandledWorlds :
         /\ w.state.startTime = timer.state.startTime
         /\ w.state.duration = timer.state.duration
         /\ Running(World) => Running(w)
         /\ timer.state.isExpired => w.state.isExpired

\* The coordinator's Waiting state: the waiting message, and no tick scheduled.
Waiting(w) == w.displayMode = "waiting" /\ ~w.intervalId

\* C4: entering the section at a path that is not the start point, with no
\* persisted record, ends in Waiting, whether the entry is a page load or a
\* navigation handled in the page.
C4_WaitingWithoutRecord ==
  storage = <<>> =>
    /\ \A u \in Urls :
         taskPatterns(u) /\ ~countdownPatterns(u)
           => Waiting(performInitialization(u, now, storage))
    /\ LastHandledOutside /\ taskPatterns(location) /\ ~countdownPatterns(location)
         => \A w \in HandledWorlds : Waiting(w)

\* C5: when the timer has expired and the controls are disabled, handling a
\* navigation out of the section leaves the element disabler not disabled and
\* its set of disabled elements empty.
C5_ControlsRestoredOnExit ==
  /\ ~LastHandledOutside /\ ~taskPatterns(location)
  /\ timer.state.isExpired /\ disabler.isDisabled
  => \A w \in HandledWorlds : ~w.isDisabled /\ w.disabledElements = {}

\* C6: whenever the last handled location is outside the section, no record is
\* in storage and neither the tick nor the drift check is scheduled.
C6_NothingKeptOutsideSection ==
  LastHandledOutside
    => storage = <<>> /\ ~timer.intervalId /\ ~timer.syncInterval

\* C7: after the section has been left, handling the next entry at the start
\* point leaves a full-duration running record, the controls enabled and the
\* display showing the active countdown.
C7_EntryAtStartAfterExit ==
  visited /\ LastHandledOutside /\ countdownPatterns(location)
    => \A w \in HandledWorlds :
         /\ BrandNewRecord(w)
         /\ ~w.isDisabled /\ w.disabledElements = {}
         /\ w.displayCreated /\ w.displayMode = "active"

\* What a user can observe of a world: the record and whether it is ticked,
\* the stored record, the overlay, and the disabled controls.
Observable(w) ==
  [state |-> w.state, ticking |-> w.intervalId, storage |-> w.storage,
   display |-> DisplayOf(w), disabler |-> DisablerOf(w)]

\* C8: after the section has been left, handling a re-entry at any path of the
\* section ends in what a first-ever entry at that path (a page load with
\* empty storage) ends in.
C8_ReentryLikeFirstEntry ==
  visited /\ LastHandledOutside /\ taskPatterns(location)
    => \A w \in HandledWorlds :
         Observable(w) = Observable(performInitialization(location, now, <<>>))

\* The handler ended with the record expired and applied disable-all once.
ExpiredWithOneDisableAll(w) ==
  w.state.isExpired /\ Count(w.trace, "disableAll") = 1

\* C9: the first tick at or after startTime + duration expires the record and
\* applies disable-all exactly once, although the tick signals the expiry
\* more than once.
C9_DisableAllOnceAtExpiry ==
  /\ timer.intervalId /\ ~timer.state.isExpired
  /\ now - timer.state.startTime >= timer.state.duration
  => ExpiredWithOneDisableAll(tick(World))

\* The worlds in which the script recomputes the remaining time in this state:
\* the in-memory record, when a tick can run or when a drift check or a
\* visibility change can run and finds a discrepancy, and the stored record a
\* page load would recover.
RecomputationInputs ==
  (IF \/ timer.intervalId
      \/ /\ timer.syncInterval \/ timer.visibilityChangeHandler
         /\ timerIsActive(World) /\ syncNeeded(World)
   THEN {World} ELSE {})
    \cup (IF loadedState(World) # <<>>
          THEN {restoredState(World, storage[1])} ELSE {})

Elapsed(w) == w.now - w.state.startTime

\* w1, recomputed from w0, holds max(0, d - e) and is expired iff that is 0.
RecomputedFromElapsed(w0, w1) ==
  /\ w1.state.remainingTime = Max(0, w0.state.duration - Elapsed(w0))
  /\ w1.state.isExpired <=> w1.state.remainingTime = 0

\* As RecomputedFromElapsed, except that a record already expired stays
\* expired with nothing remaining.
RecomputedOrStillExpired(w0, w1) ==
  IF w0.state.isExpired
  THEN w1.state.isExpired /\ w1.state.remainingTime = 0
  ELSE RecomputedFromElapsed(w0, w1)

\* C10 (amended): for elapsed time e >= 0, a recomputation of a record that is
\* not already expired leaves remainingTime = max(0, d - e) and the record
\* expired iff remainingTime = 0; a record already expired stays expired with
\* remainingTime = 0.
C10_RecomputationUnlessExpired ==
  \A w0 \in RecomputationInputs :
    Elapsed(w0) >= 0 => RecomputedOrStillExpired(w0, calculateRemainingTime(w0))

\* C10 (as stated): for elapsed time e >= 0, a recomputation leaves
\* remainingTime = max(0, d - e) and the record expired iff remainingTime = 0.
C10_RecomputationAsStated ==
  \A w0 \in RecomputationInputs :
    Elapsed(w0) >= 0 => RecomputedFromElapsed(w0, calculateRemainingTime(w0))

\* A running record whose duration has elapsed is recomputed, and expires.
C10_RecomputationExpires ==
  \E w0 \in RecomputationInputs :
    /\ ~w0.state.isExpired /\ Elapsed(w0) >= w0.state.duration
    /\ calculateRemainingTime(w0).state.isExpired

\* C11: in every reachable state of the in-memory record, including the
\* states recovered from any stored record that passes validation, isActive
\* and isExpired are never both true.
C11_ActiveAndExpiredExclusive ==
  ~(timer.state.isActive /\ timer.state.isExpired)

\* The remaining time of w's record lies between 0 and its duration.
RemainingTimeInRange(w) ==
  w.state.remainingTime >= 0 /\ w.state.remainingTime <= w.state.duration

\* C12: in every reachable state (after construction, recovery from a stored
\* record, tick, drift check, visibility change and clock jumps in both
\* directions), and after an expire() or a reset() from it,
\* 0 <= remainingTime <= duration.
C12_RemainingTimeWithinDuration ==
  /\ RemainingTimeInRange(World)
  /\ RemainingTimeInRange(expire(World))
  /\ RemainingTimeInRange(reset(World))

\* A record recovered from storage (its duration is not the script's own) has
\* been recomputed after more than its duration elapsed: it is expired with
\* nothing remaining.
C12_ExpiredPastDuration ==
  /\ timer.state.duration = ClockStep
  /\ now - timer.state.startTime > timer.state.duration
  /\ timer.state.isExpired /\ timer.state.remainingTime = 0

\* C13: once the record is expired it stays expired across a tick, a drift
\* check, a visibility change, a start() call and the handling of a navigation
\* between two locations inside the section.
C13_ExpiredStaysExpired ==
  timer.state.isExpired =>
    /\ tick(World).state.isExpired
    /\ performSynchronizationCheck(World).state.isExpired
    /\ visibilityChangeHandler(World).state.isExpired
    /\ start(World).state.isExpired
    /\ (~LastHandledOutside /\ taskPatterns(location)
          /\ location # detector.currentUrl
        => \A w \in HandledWorlds : w.state.isExpired)

\* w's record starts at w's instant with its whole duration remaining and is
\* not expired.
RestartedAtNow(w) ==
  /\ w.state.remainingTime = w.state.duration
  /\ w.state.startTime = w.now
  /\ ~w.state.isExpired

\* The timer a page load constructs in this state, when the stored record's
\* startTime lies ahead of the clock.
LoadedAheadOfClock ==
  IF storage # <<>> /\ storage[1].startTime > now
  THEN {constructed(location, now, storage)} ELSE {}

\* w1, recomputed or loaded from the record r read at an instant before its
\* startTime: restarted at that instant, unless r was expired, and then still
\* expired with nothing remaining and r's startTime.
RestartedOrStillExpired(r, w1) ==
  IF r.isExpired
  THEN /\ w1.state.isExpired /\ w1.state.remainingTime = 0
       /\ w1.state.startTime = r.startTime
  ELSE RestartedAtNow(w1)

\* C14 (amended): a record that is not expired and is recomputed, or loaded
\* from storage, at an instant before its startTime ends with remainingTime =
\* duration, startTime = now and not expired; a record that is expired stays
\* expired with remainingTime = 0 and its startTime; a stored record that
\* fails validation is replaced by a new record started at the present instant.
C14_RestartedUnlessExpired ==
  /\ \A w0 \in RecomputationInputs :
       Elapsed(w0) < 0 => RestartedOrStillExpired(w0.state, calculateRemainingTime(w0))
  /\ \A w1 \in LoadedAheadOfClock :
       IF loadedState(World) # <<>>
       THEN RestartedOrStillExpired(storage[1], w1)
       ELSE RestartedAtNow(w1)

\* C14 (as stated): whenever the timer is loaded or the remaining time is
\* recomputed at an instant before startTime, the resulting record has
\* remainingTime = duration, startTime = now and is not expired.
C14_RestartedAsStated ==
  /\ \A w0 \in RecomputationInputs :
       Elapsed(w0) < 0 => RestartedAtNow(calculateRemainingTime(w0))
  /\ \A w1 \in LoadedAheadOfClock : RestartedAtNow(w1)

\* A running record is ticked at an instant before its startTime, and restarts
\* at that instant.
C14_TickedBehindStart ==
  /\ timer.intervalId /\ ~timer.state.isExpired /\ now < timer.state.startTime
  /\ RestartedAtNow(tick(World))

\* The stored record would be recovered by a page load, is active and not
\* expired, and its duration has elapsed.
StoredRecordElapsed ==
  /\ loadedState(World) # <<>>
  /\ storage[1].isActive /\ ~storage[1].isExpired
  /\ now - storage[1].startTime >= storage[1].duration

\* w's record is expired, with nothing remaining, and is the stored record.
ExpiredAndPersisted(w) ==
  /\ w.state.isExpired /\ ~w.state.isActive /\ w.state.remainingTime = 0
  /\ w.storage = saveStateToStorage(w).storage

\* C15: loading a valid stored record that is active, not expired and whose
\* duration has elapsed (now - startTime >= duration) gives a timer whose
\* record is expired (isExpired, not isActive, remainingTime = 0) and is
\* persisted again.
C15_ElapsedRecordRecoversExpired ==
  StoredRecordElapsed => ExpiredAndPersisted(constructed(location, now, storage))

\* A stored running record whose duration has elapsed is there to be loaded,
\* and the timer constructed from it is expired, with the record's startTime.
C15_ElapsedRecordLoaded ==
  /\ StoredRecordElapsed
  /\ constructed(location, now, storage).state.isExpired
  /\ constructed(location, now, storage).state.startTime = storage[1].startTime

\* The record of w1 has the flags, the duration and the startTime of w0's
\* record, and its recomputed remaining time is the one persisted in w0.
SameRecord(w0, w1) ==
  /\ w1.state.isActive = w0.state.isActive
  /\ w1.state.isExpired = w0.state.isExpired
  /\ w1.state.duration = w0.state.duration
  /\ w1.state.startTime = w0.state.startTime
  /\ w1.state.remainingTime = w0.storage[1].remainingTime

\* Loading what w persisted, at w's instant, gives w's record back.
LoadsBack(w) ==
  /\ w.storage # <<>>
  /\ SameRecord(w, constructed(w.location, w.now, w.storage))

SameTimerOutcome(w1, w2) ==
  /\ w2.state = w1.state
  /\ w2.storage = w1.storage
  /\ w2.intervalId = w1.intervalId /\ w2.syncInterval = w1.syncInterval
  /\ w2.refreshInterval = w1.refreshInterval
  /\ ~w2.intervalId /\ ~w2.syncInterval

\* C17: expire() called twice leaves the same record, the same persisted
\* record and the same scheduled timers (none) as expire() called once.
C17_ExpireIdempotent ==
  SameTimerOutcome(expire(World), expire(expire(World)))

\* A running record whose duration has elapsed is ticked: the tick calls
\* expire() twice, and ends as one expire() does.
C17_ExpiredTwiceByTick ==
  /\ timer.intervalId /\ ~timer.state.isExpired
  /\ now - timer.state.startTime >= timer.state.duration
  /\ Count(tick(World).trace, "onExpire") = 2
  /\ SameTimerOutcome(expire(World), tick(World))

\* C18: shouldReset() is true exactly when the current path matches the start
\* pattern and the retained previous path does not match the section pattern,
\* the previous path being the empty one when none has been recorded yet.
C18_ShouldResetExactly ==
  shouldResetTimer(World)
    <=> (countdownPatterns(location) /\ ~taskPatterns(getPreviousPath(World)))

\* The detector's callbacks that ran in the handler that ended in w, in order.
DetectorCallbacks(w) ==
  SelectSeq(w.trace, LAMBDA e : e \in {"onTaskMatch", "onCountdownMatch", "onNoMatch"})

\* The callbacks the handling of a location u is to run, in order.
CallbacksFor(u) ==
  IF countdownPatterns(u) THEN <<"onTaskMatch", "onCountdownMatch">>
  ELSE IF taskPatterns(u) THEN <<"onTaskMatch">>
  ELSE <<"onNoMatch">>

\* C19: every handling of the location runs the section-match callback alone
\* for a path inside the section that is not the start point, the section-match
\* callback and then the start-match callback for the start point, and the
\* no-match callback alone for a path outside the section.
C19_CallbacksByClassification ==
  \A w \in HandledWorlds : DetectorCallbacks(w) = CallbacksFor(location)

\* A change of location to the start point is handled, and the section-match
\* callback runs before the start-match callback.
C19_StartPointHandled ==
  /\ pending > 0 /\ location # detector.currentUrl /\ countdownPatterns(location)
  /\ DetectorCallbacks(handleUrlChange(World)) = <<"onTaskMatch", "onCountdownMatch">>

\* The coordinator's Expired state: the record expired, no tick scheduled and
\* every control of the page disabled.
ExpiredState(w) ==
  /\ w.state.isExpired /\ ~w.intervalId
  /\ w.isDisabled /\ w.dom \subseteq w.disabledElements

NonStartPath(u) == taskPatterns(u) /\ ~countdownPatterns(u)

\* w continues the persisted record r: Running if r has time left, Expired if
\* not, with r's duration and with the startTime t.
ContinuedFrom(r, w, t) ==
  /\ w.state.startTime = t
  /\ w.state.duration = r.duration
  /\ IF ~r.isExpired /\ w.now - r.startTime < r.duration
     THEN Running(w) ELSE ExpiredState(w)

\* w continues the persisted record r with r's startTime.
Continued(r, w) == ContinuedFrom(r, w, r.startTime)

\* As Continued, except that a record that is not expired and whose startTime
\* lies ahead of the clock restarts at the present instant.
ContinuedOrRestarted(r, w) ==
  ContinuedFrom(r, w, IF ~r.isExpired /\ r.startTime > w.now THEN w.now ELSE r.startTime)

RecoveredWith(r, w, t) ==
  /\ w.state.startTime = t
  /\ w.state.duration = r.duration
  /\ r.isExpired => w.state.isExpired

\* The startTime a load at the instant t gives the record r: r's own, or t for
\* a record that is not expired and starts ahead of the clock.
StartTimeAfterLoad(r, t) ==
  IF ~r.isExpired /\ r.startTime > t THEN t ELSE r.startTime

\* C21 (amended): a page load at the start point with a valid persisted record
\* does not reset the timer: the record is recovered with its persisted
\* duration and with its persisted startTime, unless it is not expired and
\* starts ahead of the clock (then startTime is the present instant), and a
\* persisted expired record stays expired.
C21_ReloadRecoversOrRestarts ==
  loadedState(World) # <<>> =>
    \A u \in Urls :
      countdownPatterns(u)
        => RecoveredWith(storage[1], performInitialization(u, now, storage),
                         StartTimeAfterLoad(storage[1], now))

\* C21 (as stated): a page load at the start point with a valid persisted
\* record recovers the record with its persisted startTime and duration, and a
\* persisted expired record stays expired.
C21_ReloadRecovers ==
  loadedState(World) # <<>> =>
    \A u \in Urls :
      countdownPatterns(u)
        => RecoveredWith(storage[1], performInitialization(u, now, storage),
                         storage[1].startTime)

\* An expired record persisted at an earlier instant is there when the page is
\* loaded at /task/1: it is recovered expired, with its startTime.
C21_ExpiredRecordReloaded ==
  /\ loadedState(World) # <<>> /\ storage[1].isExpired
  /\ storage[1].startTime < now
  /\ performInitialization(Task1, now, storage).state.isExpired
  /\ performInitialization(Task1, now, storage).state.startTime = storage[1].startTime

\* The coordinator is running a timer whose duration has elapsed.
RunningPastDuration ==
  /\ controller.isInitialized /\ Running(World)
  /\ now - timer.state.startTime >= timer.state.duration

\* C22: while the location stays inside the section, a coordinator that is
\* running a timer when the clock has reached startTime + duration eventually
\* reaches Expired with the controls disabled, whatever navigations inside the
\* section happen in between.
C22_ExpiresOnceDue == RunningPastDuration ~> ExpiredState(World)

\* The delay of the n-th retry: 1000 ms doubled per retry, at most 5000 ms.
BackoffDelay(n) == Min(1000 * 2 ^ (n - 1), 5000)

\* Nothing that would call performInitialization is scheduled.
NoAttemptScheduled == initializer.retryDelay = 0 /\ ~initializer.listening

BootstrapBounded ==
  /\ initializer.runs <= maxInitializationAttempts
  /\ \A n \in 1..Len(initializer.delays) : initializer.delays[n] = BackoffDelay(n)
  /\ initializer.initializationAttempts >= maxInitializationAttempts
       => NoAttemptScheduled
  /\ initializer.isInitialized => NoAttemptScheduled

\* C23: performInitialization runs at most maxInitializationAttempts (5) times;
\* the n-th retry is scheduled with the delay min(1000 * 2^(n-1), 5000) ms; once
\* the limit of failed attempts is reached, and once an attempt has succeeded,
\* no attempt is scheduled and performInitialization is never run again.
C23_BootstrapAttemptsBounded ==
  /\ []BootstrapBounded
  /\ [][(initializer.isInitialized
           \/ initializer.initializationAttempts >= maxInitializationAttempts)
          => initializer'.runs = initializer.runs]_vars

\* Every attempt failed: the initializer gave up after its fifth run, having
\* scheduled four retries.
C23_GaveUpAfterLimit ==
  /\ ~initializer.isInitialized
  /\ initializer.runs = maxInitializationAttempts
  /\ Len(initializer.delays) = maxInitializationAttempts - 1
  /\ NoAttemptScheduled

\* C24: from every reachable state, each handler of the coordinator (the
\* handling of a navigation to a section page, to the start point or out of
\* the section, the tick, the drift check, the visibility change and the
\* expiry) runs to its end: none is cut short by an error it does not handle.
C24_HandlersRunToCompletion ==
  /\ \A w \in HandledWorlds : ~w.threw
  /\ ~tick(World).threw
  /\ ~syncIntervalCallback(World).threw
  /\ ~visibilityChangeHandler(World).threw
  /\ ~expire(World).threw

\* A required field of the parsed value s is missing or of the wrong type:
\* startTime and duration numbers and positive, isActive and isExpired booleans.
RequiredFieldWrong(s) ==
  \/ typeOf(s, "startTime") # "number" \/ typeOf(s, "duration") # "number"
  \/ typeOf(s, "isActive") # "boolean" \/ typeOf(s, "isExpired") # "boolean"
  \/ s.startTime <= 0 \/ s.duration <= 0

\* The reasons for which a parsed value s is to be rejected at time t.
ToBeRejected(s, t) ==
  \/ RequiredFieldWrong(s)
  \/ s.startTime < t - 24 * 60 * 60 * 1000
  \/ s.startTime > t + 5 * 60 * 1000
  \/ s.duration < 60 * 1000
  \/ s.duration > 24 * 60 * 60 * 1000

\* The value was saved over an hour ago and its duration has elapsed without
\* isExpired being set.
ElapsedUnnoticed(s, t) ==
  /\ t - s.savedAt > 60 * 60 * 1000
  /\ t - s.startTime >= s.duration
  /\ ~s.isExpired

\* C25: validateStoredData rejects a parsed stored value exactly if a required
\* field is missing or of the wrong type, its startTime is more than 24 hours
\* before or more than 5 minutes after the clock, or its duration is below one
\* minute or above 24 hours; a value saved long ago whose duration elapsed
\* without isExpired set is accepted if nothing else is wrong with it.
C25_RejectedExactlyIfOutOfRange ==
  (storage # <<>> /\ parses(storage[1])) =>
    /\ ~validateStoredData(storage[1], now) <=> ToBeRejected(storage[1], now)
    /\ (ElapsedUnnoticed(storage[1], now) /\ ~ToBeRejected(storage[1], now))
         => /\ validateStoredData(storage[1], now)
            /\ loadedState(World) = IF storageFails = "all" THEN <<>> ELSE storage

\* A day-old record whose duration elapsed unnoticed was accepted by the load:
\* the timer has its startTime, and expired in the recovery (the record is
\* still the stored one, as nothing could be written).
C25_ElapsedRecordAccepted ==
  /\ initializer.isInitialized
  /\ now = LateInstant
  /\ storageFails = "writes"
  /\ storage # <<>> /\ ElapsedUnnoticed(storage[1], now)
  /\ timer.state.startTime = storage[1].startTime
  /\ timer.state.isExpired

\* The world w with a localStorage that works.
Working(w) == [w EXCEPT !.storageFails = "none"]

\* The worlds w1 and w2 are the same but for localStorage: the same objects'
\* fields, the same callbacks called in the same order.
SameButStorage(w1, w2) ==
  [w1 EXCEPT !.storage = <<>>, !.storageFails = "none"]
    = [w2 EXCEPT !.storage = <<>>, !.storageFails = "none"]

\* The next tick writes the record again: with a localStorage that works
\* again, the stored record is the one in memory.
NextTickWrites(w) ==
  Then(tick(Working(w)), LAMBDA w1 : w1.storage = saveStateToStorage(w1).storage)

\* C26: when the writes to localStorage fail, a tick, an expiry and a reset
\* leave the record in memory, and everything else but localStorage, exactly
\* as with a write that succeeds; the tick and expire callbacks are called as
\* well; and the tick after a tick whose write failed writes the record again.
C26_FailedWriteChangesNothingElse ==
  storageFails # "none" =>
    /\ SameButStorage(tick(World), tick(Working(World)))
    /\ SameButStorage(expire(World), expire(Working(World)))
    /\ SameButStorage(reset(World), reset(Working(World)))
    /\ timer.onTick => Count(tick(World).trace, "onTick") = 1
    /\ timer.onExpire => Count(expire(World).trace, "onExpire") = 1
    /\ tick(World).storage = storage
    /\ tick(World).intervalId => NextTickWrites(tick(World))

\* The write of an expiring tick failed: the timer is expired in memory and
\* the controls were disabled by the expire callback, while the stored record
\* is still the running one.
C26_ExpiredWithoutWrite ==
  /\ storageFails = "writes"
  /\ timer.state.isExpired /\ disabler.isDisabled
  /\ storage # <<>> /\ ~storage[1].isExpired /\ storage[1].isActive
  /\ storage[1].startTime = timer.state.startTime

\* The stored value cannot be used: reading localStorage fails, or the value
\* does not parse, or it fails the validation.
StoredValueUnusable ==
  \/ storageFails = "all"
  \/ storage # <<>> /\ ~parses(storage[1])
  \/ storage # <<>> /\ ~validateStoredData(storage[1], now)

\* The record of w is a fresh one, started at the time t.
FreshRecord(w, t) ==
  /\ w.state.startTime = t
  /\ w.state.duration = DefaultDuration
  /\ w.state.remainingTime = w.state.duration
  /\ w.state.isActive /\ ~w.state.isExpired

\* C27: if reading localStorage fails, or the stored value does not parse or
\* fails the validation, initializeState ends without an error with a fresh
\* record (startTime = now, remainingTime = duration, active, not expired), and
\* the stored value is not kept: it is replaced with the fresh record, or
\* removed when nothing can be written (it stays only if localStorage cannot be
\* accessed at all).
C27_UnusableValueGivesFreshRecord ==
  (~initializer.isInitialized /\ StoredValueUnusable) =>
    Then(initializeState(World),
         LAMBDA w1 :
           /\ FreshRecord(w1, now)
           /\ ~w1.threw
           /\ storageFails = "none" => w1.storage = saveStateToStorage(w1).storage
           /\ storageFails = "writes" => w1.storage = <<>>
           /\ storageFails = "all" => w1.storage = storage)

\* The script was loaded over a stored value that failed the validation while
\* nothing could be written: the value is gone and the timer runs a fresh record.
C27_InvalidValueDiscarded ==
  /\ initializer.isInitialized
  /\ storageFails = "writes"
  /\ storage = <<>>
  /\ timer.state.startTime = now /\ timer.state.isActive /\ ~timer.state.isExpired
  /\ timer.state.remainingTime = DefaultDuration

\* The stored record is the record of w, saved at the time t.
PersistedAt(w, t) ==
  w.storage = <<[startTime |-> w.state.startTime, duration |-> w.state.duration,
                 isActive |-> w.state.isActive, isExpired |-> w.state.isExpired,
                 remainingTime |-> w.state.remainingTime, savedAt |-> t]>>

\* C28: from every reachable timer state (running, expired or stopped),
\* reset() leaves the tick interval and the synchronization interval stopped
\* and a fresh record (startTime = now, the default duration, all of it
\* remaining, active, not expired), and the stored record is that record.
C28_ResetLeavesFreshRecord ==
  Then(reset(World),
       LAMBDA w1 :
         /\ ~w1.intervalId /\ ~w1.syncInterval
         /\ FreshRecord(w1, now)
         /\ PersistedAt(w1, now))

\* An expired timer was reset by a navigation: the record is fresh and stored,
\* and the controls disabled at the expiry are still disabled.
C28_ExpiredTimerReset ==
  /\ FreshRecord(World, now) /\ PersistedAt(World, now)
  /\ now > Epoch
  /\ disabler.isDisabled

\* C29: whenever a change of the location is detected, by a navigation
\* notification or by the polling interval, the handling leaves in previousUrl
\* the url that was the current one before the change, so that shouldResetTimer
\* is evaluated against it.
C29_PreviousPathBeforeChange ==
  location # detector.currentUrl =>
    \A w \in HandledWorlds : w.previousUrl = <<detector.currentUrl>>

\* The coordinator is expired and a control that appeared on the page is not
\* disabled.
ExpiredWithEnabledControl ==
  /\ controller.isInitialized /\ timer.state.isExpired
  /\ LateControl \in dom \ disabler.disabledElements

\* C30: while the coordinator stays expired inside the section, a matching
\* control that appeared on the page and is not disabled is eventually disabled
\* by the re-application (the observer's refresh or the periodic refresh).
C30_LateControlDisabled ==
  ExpiredWithEnabledControl
    ~> (LateControl \in disabler.disabledElements \/ ~timer.state.isExpired)

\* C31: in every state in which the last handled location is outside the
\* section, nothing of the re-application is left running: no observer
\* connected by the coordinator (referenced or not) and no element-refresh
\* interval.
C31_NoReapplicationOutsideSection ==
  LastHandledOutside =>
    /\ ~controller.mutationObserver
    /\ ~controller.unreferencedObserver
    /\ ~controller.refreshInterval

\* In the sequence s of callbacks, every e2 comes after some e1.
Precedes(s, e1, e2) ==
  \A i \in 1..Len(s) : s[i] = e2 => \E j \in 1..(i - 1) : s[j] = e1

\* C32: within one tick of a running timer the tick callback is called before
\* the transition to expired: on a tick that expires the timer, the expire
\* callback comes after the tick callback, and it comes once.
C32_TickCallbackBeforeExpiry ==
  (timer.intervalId /\ timer.onTick /\ timer.onExpire) =>
    /\ Precedes(tick(World).trace, "onTick", "onExpire")
    /\ Count(tick(World).trace, "onExpire") <= 1

\* The remaining time recomputed from the clock: max(0, duration - (now - startTime)).
Recomputed(w) == Max(0, w.state.duration - (w.now - w.state.startTime))

\* The record of w1 is the record of w0 corrected by the drift check: the
\* remaining time recomputed from the clock, or, with the clock behind
\* startTime, the whole duration from now on; and it is the stored record.
CorrectedFrom(w0, w1) ==
  /\ IF w0.now < w0.state.startTime
     THEN w1.state.startTime = w0.now /\ w1.state.remainingTime = w0.state.duration
     ELSE w1.state.remainingTime = Recomputed(w0)
  /\ w1.storage = saveStateToStorage(w1).storage

\* The drift check of a timer that is active reports a correction exactly at a
\* discrepancy of more than 5000 ms, and without a correction changes nothing.
ReportsExactlyPastLimit ==
  /\ syncNeeded(World) <=> Abs(timer.state.remainingTime - Recomputed(World)) > 5000
  /\ ~syncNeeded(World) => performSynchronizationCheck(World) = World

\* C33 (amended): the drift check of an active timer reports a correction
\* exactly if the cached remaining time differs from
\* max(0, duration - (now - startTime)) by more than 5000 ms; after a
\* correction the cached remaining time is the recomputed value (with the clock
\* behind startTime: the whole duration, startTime being set to now) and the
\* record is stored; without one the record is unchanged.
C33_CorrectionPastLimitUnlessClockBack ==
  (timer.state.isActive /\ ~timer.state.isExpired) =>
    /\ ReportsExactlyPastLimit
    /\ syncNeeded(World) => CorrectedFrom(World, performSynchronizationCheck(World))

\* C33: as C33 (amended), but after every correction the cached remaining time
\* is max(0, duration - (now - startTime)) as recomputed for the test.
C33_CorrectionPastLimit ==
  (timer.state.isActive /\ ~timer.state.isExpired) =>
    /\ ReportsExactlyPastLimit
    /\ syncNeeded(World) =>
         Then(performSynchronizationCheck(World),
              LAMBDA w1 : /\ w1.state.remainingTime = Recomputed(World)
                          /\ w1.storage = saveStateToStorage(w1).storage)

\* The drift check has corrected a running timer that no tick had updated:
\* the record in memory and in localStorage has the recomputed remaining time,
\* and the display still shows the time of the last tick.
C33_CorrectedByDriftCheck ==
  /\ Running(World)
  /\ timer.state.remainingTime = Recomputed(World)
  /\ timer.state.remainingTime < timer.state.duration
  /\ storage # <<>> /\ storage[1].remainingTime = timer.state.remainingTime
  /\ display.text # formatTime(timer.state.remainingTime)

\* C34: in every state in which a timer is running inside the section, the
\* visibilitychange listener that runs the drift check is registered, so that
\* the check runs when the page becomes visible; also after the section was
\* left and entered again.
C34_VisibilityCheckWhileRunning ==
  (Running(World) /\ ~LastHandledOutside) => timer.visibilityChangeHandler

\* The record that a tick at the clock reading t makes of the record r, by
\* r's startTime, duration and isExpired alone.
TickOutcome(r, t) ==
  IF r.isExpired \/ t - r.startTime >= r.duration
  THEN [r EXCEPT !.isExpired = TRUE, !.isActive = FALSE, !.remainingTime = 0]
  ELSE IF t < r.startTime
  THEN [r EXCEPT !.startTime = t, !.remainingTime = r.duration]
  ELSE [r EXCEPT !.remainingTime = r.duration - (t - r.startTime)]

\* The handlers that may run before a tick.
HandlerOutcomes ==
  {tick(World), syncIntervalCallback(World), visibilityChangeHandler(World),
   tick(syncIntervalCallback(World)), syncIntervalCallback(tick(World)),
   visibilityChangeHandler(syncIntervalCallback(World))}

\* C35 (amended): the record reached by a tick at a clock reading depends only
\* on the startTime, duration and isExpired of the record and on the reading,
\* never on the cached remaining time; the tick, drift-check and
\* visibility-change handlers that ran before it at the same reading, in any
\* order, do not change it.
C35_TickResultFromStartTime ==
  timer.intervalId =>
    /\ tick(World).state = TickOutcome(timer.state, now)
    /\ \A w \in HandlerOutcomes : w.intervalId => tick(w).state = tick(World).state

\* C35: the record reached by a tick at a clock reading is that of every
\* history over the same clock trajectory, in particular of the history in
\* which no handler ran before this tick since the page was loaded.
C35_TickResultIndependentOfHistory ==
  timer.intervalId =>
    tick(World).state
      = tick([World EXCEPT !.state = performInitialization(location, Epoch, <<>>).state]).state

\* A tick ran after ticks that were skipped while the clock went on by more
\* than the limit of the drift check: the record is the recomputed one and the
\* display shows it.
C35_TickedAfterSkippedTicks ==
  /\ Running(World)
  /\ now >= timer.state.startTime + MaxDiscrepancy + 1
  /\ timer.state.remainingTime = timer.state.duration - (now - timer.state.startTime)
  /\ display.text = formatTime(timer.state.remainingTime)

\* The classification of a url: the start point, another page of the section,
\* or a page outside the section.
Classification(u) ==
  IF countdownPatterns(u) THEN "start"
  ELSE IF taskPatterns(u) THEN "section" ELSE "outside"

\* Coordinators after a short history: a page load at Epoch with empty
\* localStorage, possibly followed by one navigation handled at once.
TwinHistories ==
  {performInitialization(u, Epoch, <<>>) : u \in Urls}
    \cup {handleUrlChange([performInitialization(u0, Epoch, <<>>)
                            EXCEPT !.location = u1]) :
            u0 \in Urls, u1 \in Urls}

\* The twins of the coordinator at the current clock reading: they handled a
\* location of the same classification last, have the same persisted record
\* and even the same record in memory, whatever their other local fields.
Twins ==
  {[w EXCEPT !.now = now, !.trace = <<>>] :
     w \in {h \in TwinHistories :
              /\ ~h.threw
              /\ h.storage = storage
              /\ h.state = timer.state
              /\ Classification(h.currentUrl) = Classification(detector.currentUrl)}}

\* The navigation to u, notified and handled.
NavigatedTo(w, u) == handleUrlChange([w EXCEPT !.location = u])

\* C36: two coordinators that agree on the classification of the location
\* they handled last and on the persisted record reach the same timer record,
\* the same tick scheduling and the same disabled state of the controls when
\* they handle the same navigation, whatever their local fields
\* (isInitialized, isAutoActivated).
C36_DecisionFromPersistedStateOnly ==
  \A w2 \in Twins :
    \A u \in Urls :
      (u # detector.currentUrl /\ u # w2.currentUrl) =>
        Then(NavigatedTo(World, u),
             LAMBDA a :
               Then(NavigatedTo(w2, u),
                    LAMBDA b :
                      /\ a.state = b.state
                      /\ a.intervalId = b.intervalId
                      /\ a.isDisabled = b.isDisabled))

\* C37: in every reachable state, controls disabled by the extension imply an
\* expired record: while the record is active and not expired the element
\* disabler is not in the disabled state.
C37_DisabledOnlyWhenExpired ==
  timer.state.isActive /\ ~timer.state.isExpired => ~disabler.isDisabled

\* C38: a navigation notification that arrives while the location is still the
\* one handled last never resets the timer: handling it leaves startTime
\* unchanged, whatever the previous-path slot holds.
C38_NoResetWithoutUrlChange ==
  location = detector.currentUrl
    => handleUrlChange(World).state.startTime = timer.state.startTime

\* C39: whenever the location handled last is inside the section and the
\* displayed record is active and not expired, the 1-second tick is scheduled.
C39_TickScheduledWhileRunningInSection ==
  /\ taskPatterns(detector.currentUrl)
  /\ display.isCreated
  /\ timer.state.isActive /\ ~timer.state.isExpired
  => timer.intervalId

====
